---- MODULE Spec2Model ----
(***************************************************************************)
(* Paperbird: the search request handler of app.py, the arXiv feed fetcher *)
(* of src/arxiv_fetcher.py and the LLM inspector of src/ai_inspector.py,   *)
(* driven from the repository's three entry points:                        *)
(*   "app"    - POST /api/search-papers          (app.py, search_papers)   *)
(*   "fetch"  - the fetcher demonstration        (fetch_papers.py, main)   *)
(*   "test"   - the inspector demonstration      (src/test_ai_inspector.py)*)
(* The outside world (the clock, the arXiv feed, the answers of the LLM    *)
(* endpoint) is chosen nondeterministically from small sets.               *)
(***************************************************************************)
EXTENDS Integers, Sequences, FiniteSets, TLC

VARIABLES
    entry,        \* which entry point this run executes
    pc,           \* position in the entry point's code
    request,      \* app: the SearchPapersRequest body
    today,        \* app: the date part of datetime.now()
    feed,         \* the arXiv service: status of the HTTP GET and the feed entries
    start_date,   \* app: local start_date (a date, or None)
    end_date,     \* app: local end_date
    date_query,   \* app: local date_query (line 112), None until built
    categories,   \* app: local categories (line 115), empty until set
    exc,          \* the exception raised in this run, None when there is none
    response,     \* app: what the handler hands back to the HTTP layer
    fn,           \* position inside ArxivFetcher.fetch_papers
    args,         \* fetch_papers: the bound arguments of the running call
    fetchLog,     \* every HTTP GET sent to the arXiv API, in order
    cursor,       \* fetch_papers: index of the next feed entry to parse
    papers,       \* fetch_papers: local papers, then its return value
    llmLog,       \* every request sent to the LLM endpoint, in order
    llmReply,     \* the endpoint's reply to the relevance call of the running
                  \* check_relevance or analyze_paper; dropped once main moves on
    relevance,    \* the latest (is_relevant, reason) returned by check_relevance
    summary,      \* the latest return value of generate_summary, None if none
    analysis      \* the dict returned by analyze_paper, None until it returns

vars == <<entry, pc, request, today, feed, start_date, end_date, date_query,
          categories, exc,
          response, fn, args, fetchLog, cursor, papers, llmLog, llmReply,
          relevance, summary, analysis>>

None == "None"

(***************************************************************************)
(* Bounds of the model.                                                    *)
(***************************************************************************)
MaxTextLen == 4     \* longest LLM reply text, in tokens
MaxEntries == 2     \* most entries in one feed

(***************************************************************************)
(* The proleptic Gregorian calendar of Python's datetime: a datetime is    *)
(* kept as <<year, month, day>> (the time of day is never read by the      *)
(* handler: only strftime('%Y%m%d') is applied), and timedelta arithmetic  *)
(* goes through the day ordinal.                                           *)
(***************************************************************************)
Years == 2022..2026

IsLeap(y) == (y % 4 = 0) /\ ((y % 100 # 0) \/ (y % 400 = 0))

DaysInMonth(y, m) ==
    IF m = 2 THEN (IF IsLeap(y) THEN 29 ELSE 28)
    ELSE IF m \in {4, 6, 9, 11} THEN 30 ELSE 31

DaysBeforeYear(y) ==
    (y - 1) * 365 + ((y - 1) \div 4) - ((y - 1) \div 100) + ((y - 1) \div 400)

RECURSIVE DaysBeforeMonth(_, _)
DaysBeforeMonth(y, m) ==
    IF m = 1 THEN 0 ELSE DaysBeforeMonth(y, m - 1) + DaysInMonth(y, m - 1)

ToOrdinal(dt) == DaysBeforeYear(dt[1]) + DaysBeforeMonth(dt[1], dt[2]) + dt[3]

FromOrdinal(n) ==
    LET y == CHOOSE yy \in Years :
                 DaysBeforeYear(yy) < n /\ n <= DaysBeforeYear(yy + 1)
        r == n - DaysBeforeYear(y)
        m == CHOOSE mm \in 1..12 :
                 /\ DaysBeforeMonth(y, mm) < r
                 /\ r <= DaysBeforeMonth(y, mm) + DaysInMonth(y, mm)
    IN  <<y, m, r - DaysBeforeMonth(y, m)>>

\* datetime - timedelta(days=n)
MinusDays(dt, n) == FromOrdinal(ToOrdinal(dt) - n)

\* datetime.replace(month=..., day=...)
ReplaceDay(dt, d) == <<dt[1], dt[2], d>>
ReplaceMonthDay(dt, m, d) == <<dt[1], m, d>>

\* The decimal digits of n, zero padded to width w.
RECURSIVE Digits(_, _)
Digits(n, w) == IF w = 0 THEN <<>> ELSE Append(Digits(n \div 10, w - 1), n % 10)

\* datetime.strftime('%Y%m%d'): eight digits.
StrfYmd(dt) == Digits(dt[1], 4) \o Digits(dt[2], 2) \o Digits(dt[3], 2)

(***************************************************************************)
(* A date string of the request (Optional[str]) is None, the empty string, *)
(* junk text, or text of the form YYYY-MM-DD, kept with its fields as      *)
(* written (they need not name a day of the calendar).                     *)
(***************************************************************************)
NoStr == [kind |-> "none"]
EmptyStr == [kind |-> "empty"]
JunkStr == [kind |-> "junk"]
IsoText(y, m, d) == [kind |-> "iso", y |-> y, m |-> m, d |-> d]

\* Python truthiness of an Optional[str].
StrTruthy(s) == s.kind \notin {"none", "empty"}

\* datetime.fromisoformat: the date, or a ValueError.
FromIsoFormat(s) ==
    IF /\ s.kind = "iso"
       /\ s.m \in 1..12
       /\ s.d \in 1..DaysInMonth(s.y, s.m)
    THEN [ok |-> TRUE, value |-> <<s.y, s.m, s.d>>]
    ELSE [ok |-> FALSE, error |-> "ValueError: Invalid isoformat string"]

(***************************************************************************)
(* The category list of the request (Optional[List[str]]).                 *)
(***************************************************************************)
NoList == [given |-> FALSE, list |-> <<>>]
List(l) == [given |-> TRUE, list |-> l]
ListTruthy(c) == c.given /\ c.list # <<>>

DefaultCategories == <<"cs.AI", "cs.LG">>

(***************************************************************************)
(* app.py, search_papers, lines 93-109: the date range of a timeframe.     *)
(***************************************************************************)
Window(s, e) == [ok |-> TRUE, start |-> s, end |-> e]
Raised(err) == [ok |-> FALSE, error |-> err]

\* A plausible slip of line 109: the fallback taking the 7-day window.
DateRange_FallbackWeek(req, now) ==
    IF req.timeframe \in {"7d"} THEN Window(MinusDays(now, 7), now)
    ELSE IF req.timeframe = "30d" THEN Window(MinusDays(now, 30), now)
    ELSE IF req.timeframe = "mtd" THEN Window(ReplaceDay(now, 1), now)
    ELSE IF req.timeframe = "ytd" THEN Window(ReplaceMonthDay(now, 1, 1), now)
    ELSE IF /\ req.timeframe = "custom"
            /\ StrTruthy(req.start_date)
            /\ StrTruthy(req.end_date)
    THEN LET s == FromIsoFormat(req.start_date)
             e == FromIsoFormat(req.end_date)
         IN  IF ~s.ok THEN Raised(s.error)
             ELSE IF ~e.ok THEN Raised(e.error)
             ELSE Window(s.value, e.value)
    ELSE Window(MinusDays(now, 7), now)

\* A plausible slip of line 103: replace(day=1) where replace(month=1, day=1)
\* is meant.
DateRange_YtdKeepsMonth(req, now) ==
    IF req.timeframe = "7d" THEN Window(MinusDays(now, 7), now)
    ELSE IF req.timeframe = "30d" THEN Window(MinusDays(now, 30), now)
    ELSE IF req.timeframe \in {"mtd", "ytd"} THEN Window(ReplaceDay(now, 1), now)
    ELSE IF /\ req.timeframe = "custom"
            /\ StrTruthy(req.start_date)
            /\ StrTruthy(req.end_date)
    THEN LET s == FromIsoFormat(req.start_date)
             e == FromIsoFormat(req.end_date)
         IN  IF ~s.ok THEN Raised(s.error)
             ELSE IF ~e.ok THEN Raised(e.error)
             ELSE Window(s.value, e.value)
    ELSE Window(MinusDays(now, 30), now)

DateRange(req, now) ==
    IF req.timeframe = "7d" THEN Window(MinusDays(now, 7), now)
    ELSE IF req.timeframe = "30d" THEN Window(MinusDays(now, 30), now)
    ELSE IF req.timeframe = "mtd" THEN Window(ReplaceDay(now, 1), now)
    ELSE IF req.timeframe = "ytd" THEN Window(ReplaceMonthDay(now, 1, 1), now)
    ELSE IF /\ req.timeframe = "custom"
            /\ StrTruthy(req.start_date)
            /\ StrTruthy(req.end_date)
    THEN LET s == FromIsoFormat(req.start_date)
             e == FromIsoFormat(req.end_date)
         IN  IF ~s.ok THEN Raised(s.error)
             ELSE IF ~e.ok THEN Raised(e.error)
             ELSE Window(s.value, e.value)
    ELSE Window(MinusDays(now, 30), now)

\* app.py line 112: "submittedDate:[<lo> TO <hi>]", lo and hi as digit strings.
NoQuery == [field |-> "unset", lo |-> <<>>, hi |-> <<>>]
DateQuery(s, e) ==
    [field |-> "submittedDate",
     lo |-> StrfYmd(s) \o <<0, 0, 0, 0, 0, 0>>,
     hi |-> StrfYmd(e) \o <<2, 3, 5, 9, 5, 9>>]

(***************************************************************************)
(* Python binds a call's keyword arguments to the callee's parameters; a   *)
(* keyword that names no parameter raises TypeError before the body runs.  *)
(***************************************************************************)
\* def search_papers(self, query, category=None, max_results=None)
SearchPapersParams == {"query", "category", "max_results"}
\* arxiv_fetcher.search_papers(query=..., categories=..., max_results=50)
HandlerCallKeywords == {"query", "categories", "max_results"}

Binds(keywords, params) == keywords \subseteq params

Pending == [status |-> 0, body |-> <<>>, detail |-> <<>>]
\* A plausible slip of line 157: the exception text left out of the detail.
ErrorResponse_NoText(e) ==
    [status |-> 500, body |-> <<>>, detail |-> <<"Error searching papers: ", "">>]

\* raise HTTPException(status_code=500, detail=f"Error searching papers: {str(e)}")
ErrorResponse(e) ==
    [status |-> 500, body |-> <<>>, detail |-> <<"Error searching papers: ", e>>]

(***************************************************************************)
(* The arXiv service as one request sees it: what the HTTP GET does and    *)
(* the entries of the Atom feed as feedparser presents them.  An entry's   *)
(* attribute is read with entry.<name>, which raises AttributeError when   *)
(* the feed did not carry it.                                              *)
(***************************************************************************)
Absent == [has |-> FALSE, value |-> <<>>]
AbsentStr == [has |-> FALSE, value |-> ""]
Present(v) == [has |-> TRUE, value |-> v]

AbsLink == [rel |-> "alternate", type |-> "text/html", href |-> "abs-url"]
PdfLink == [rel |-> "related", type |-> "application/pdf", href |-> "pdf-url"]
AltPdfLink == [rel |-> "alternate", type |-> "application/pdf", href |-> "alt-pdf-url"]

Entry(authors, updated, tags, links) ==
    [id |-> <<"http://arxiv.org", "/abs/", "2301.12345v1">>,
     title |-> "title",
     summary |-> "abstract",
     published |-> "2023-01-15T12:00:00Z",
     link |-> "abs-url",
     authors |-> authors,
     updated |-> updated,
     tags |-> tags,
     links |-> links]

Entries ==
    { Entry(a, u, t, l) :
        a \in {Absent, Present(<<"Jane Smith", "John Doe">>)},
        u \in {AbsentStr, Present("2023-01-16T12:00:00Z")},
        t \in {Absent, Present(<<"cs.AI", "cs.LG">>)},
        l \in {<<AbsLink, PdfLink>>, <<AbsLink, AltPdfLink>>} }

CompleteEntry ==
    Entry(Present(<<"Jane Smith", "John Doe">>), Present("2023-01-16T12:00:00Z"),
          Present(<<"cs.AI", "cs.LG">>), <<AbsLink, AltPdfLink>>)

SeqsUpTo(S, n) == UNION { [1..k -> S] : k \in 0..n }

Feeds ==
    { [status |-> "200", entries |-> es] : es \in SeqsUpTo(Entries, MaxEntries) }
    \cup { [status |-> st, entries |-> <<>>] : st \in {"503", "ConnectionError"} }

Range(f) == { f[i] : i \in DOMAIN f }

\* str.split(sep)[-1] on a token sequence: what follows the last sep.
RECURSIVE SplitLast(_, _)
SplitLast(toks, sep) ==
    IF toks = <<>> THEN <<>>
    ELSE IF sep \in Range(Tail(toks)) THEN SplitLast(Tail(toks), sep)
    ELSE IF Head(toks) = sep THEN Tail(toks)
    ELSE toks

\* next((link.href for link in links if rel == "alternate" and type == pdf), None)
RECURSIVE FirstPdfHref(_)
FirstPdfHref(links) ==
    IF links = <<>> THEN None
    ELSE IF Head(links).rel = "alternate" /\ Head(links).type = "application/pdf"
         THEN Head(links).href
    ELSE FirstPdfHref(Tail(links))

\* A plausible slip of line 133: entry.updated read without the "in" test.
ParseEntry_UpdatedRequired(e) ==
    IF ~e.authors.has
    THEN Raised("AttributeError: object has no attribute 'authors'")
    ELSE IF ~e.updated.has
    THEN Raised("AttributeError: object has no attribute 'updated'")
    ELSE [ok |-> TRUE,
          paper |->
            [title |-> e.title,
             abstract |-> e.summary,
             authors |-> e.authors.value,
             published |-> e.published,
             updated |-> e.updated.value,
             link |-> e.link,
             pdf_link |-> FirstPdfHref(e.links),
             arxiv_id |-> SplitLast(e.id, "/abs/"),
             categories |-> IF e.tags.has THEN e.tags.value ELSE <<>>]]

(***************************************************************************)
(* arxiv_fetcher.py, fetch_papers, lines 120-147: one feed entry to one    *)
(* paper dictionary.                                                       *)
(***************************************************************************)
ParseEntry(e) ==
    IF ~e.authors.has
    THEN Raised("AttributeError: object has no attribute 'authors'")
    ELSE [ok |-> TRUE,
          paper |->
            [title |-> e.title,
             abstract |-> e.summary,
             authors |-> e.authors.value,
             published |-> e.published,
             updated |-> IF e.updated.has THEN e.updated.value ELSE None,
             link |-> e.link,
             pdf_link |-> FirstPdfHref(e.links),
             arxiv_id |-> SplitLast(e.id, "/abs/"),
             categories |-> IF e.tags.has THEN e.tags.value ELSE <<>>]]

\* fetch_papers, lines 79-96: the search_query parameter of the GET.
DefaultSearchTerm == <<"all:quantum">>
DefaultCategory == "cs"

SearchTerm(a) ==
    LET base == IF a.search_query # <<>> THEN a.search_query ELSE DefaultSearchTerm
    IN  IF a.category \notin {None, ""} /\ "cat:" \notin Range(base)
        THEN <<"cat:", a.category, " AND ">> \o base
        ELSE base

QueryParams(a) ==
    [search_query |-> SearchTerm(a),
     start |-> 0,
     max_results |-> a.max_results,
     sortBy |-> "submittedDate",
     sortOrder |-> "descending"]

NoArgs == [search_query |-> <<>>, category |-> None, max_results |-> 0]

(***************************************************************************)
(* The LLM endpoint.  A reply text is a sequence of tokens:                *)
(*   "{"  "}"   the braces                                                 *)
(*   "T"        the member  "is_relevant": true                            *)
(*   "F"        the member  "is_relevant": false                           *)
(*   "S"        the member  "is_relevant": "yes"      (a JSON string)      *)
(*   "N"        the member  "is_relevant": null                            *)
(*   "R"        the member  "reason": "model reason"                       *)
(*   "x"        prose                                                      *)
(*   " "        white space                                                *)
(* A reply is a transport failure (requests raises RequestException, also  *)
(* for an error status through raise_for_status) or a JSON body of one of  *)
(* these shapes:                                                           *)
(*   "ok"                    {"completion_message": {"content": {"text": t}}} *)
(*   "no_completion_message" a dict without that key, e.g. {"choices": []} *)
(*   "content_is_str"        {"completion_message": {"content": "t"}}      *)
(*   "text_is_null"          {"completion_message": {"content": {"text": null}}} *)
(*   "not_a_dict"            a JSON list                                   *)
(***************************************************************************)
Tokens == {"{", "}", "T", "F", "S", "N", "R", "x", " "}
Members == {"T", "F", "S", "N", "R"}

Texts == SeqsUpTo(Tokens, MaxTextLen)
ProseTexts == SeqsUpTo({"x", " "}, MaxTextLen)

Failure == [kind |-> "RequestException", shape |-> "none", text |-> <<>>]
Body(shape, text) == [kind |-> "json", shape |-> shape, text |-> text]

OddShapes == {"no_completion_message", "content_is_str", "text_is_null", "not_a_dict"}

Replies ==
    {Failure} \cup { Body("ok", t) : t \in Texts }
              \cup { Body(sh, <<>>) : sh \in OddShapes }

SummaryReplies ==
    {Failure} \cup { Body("ok", t) : t \in ProseTexts }
              \cup { Body(sh, <<>>) : sh \in OddShapes }

\* ai_inspector.py, _call_llama_api, lines 61-66.
CallLlamaApi(reply) ==
    IF reply.kind = "RequestException"
    THEN Raised("Error calling Llama API: RequestException")
    ELSE [ok |-> TRUE, json |-> reply]

\* str.strip() on a token sequence.
RECURSIVE LStrip(_)
LStrip(t) == IF t # <<>> /\ Head(t) = " " THEN LStrip(Tail(t)) ELSE t

RECURSIVE RStrip(_)
RStrip(t) ==
    IF t # <<>> /\ t[Len(t)] = " " THEN RStrip(SubSeq(t, 1, Len(t) - 1)) ELSE t

Strip(t) == RStrip(LStrip(t))

\* A plausible variant of lines 113-118: a null text read as the empty text.
ResponseText_NullAsEmpty(json) ==
    IF json.shape = "ok" THEN [ok |-> TRUE, text |-> Strip(json.text)]
    ELSE IF json.shape \in {"no_completion_message", "text_is_null"}
         THEN [ok |-> TRUE, text |-> <<>>]
    ELSE Raised("AttributeError: object has no attribute 'get'")

\* response.get("completion_message", {}).get("content", {}).get("text", "").strip()
ResponseText(json) ==
    IF json.shape = "ok" THEN [ok |-> TRUE, text |-> Strip(json.text)]
    ELSE IF json.shape = "no_completion_message" THEN [ok |-> TRUE, text |-> <<>>]
    ELSE IF json.shape = "content_is_str"
         THEN Raised("AttributeError: 'str' object has no attribute 'get'")
    ELSE IF json.shape = "text_is_null"
         THEN Raised("AttributeError: 'NoneType' object has no attribute 'strip'")
    ELSE Raised("AttributeError: 'list' object has no attribute 'get'")

\* str.find and str.rfind, 0-based, -1 when the token does not occur.
Find(t, c) ==
    IF c \in Range(t) THEN (CHOOSE i \in 1..Len(t) :
                               t[i] = c /\ \A j \in 1..(i - 1) : t[j] # c) - 1
    ELSE -1

RFind(t, c) ==
    IF c \in Range(t) THEN (CHOOSE i \in 1..Len(t) :
                               t[i] = c /\ \A j \in (i + 1)..Len(t) : t[j] # c) - 1
    ELSE -1

\* Python slice text[a:b] for 0 <= a < b <= len.
Slice(t, a, b) == SubSeq(t, a + 1, b)

(***************************************************************************)
(* json.loads on a token sequence that starts with "{" and ends with "}":  *)
(* an object when only members and white space stand between the braces,   *)
(* JSONDecodeError otherwise.  A repeated key keeps its last value.        *)
(***************************************************************************)
JTrue == "true"
JFalse == "false"
JNull == "null"
JYes == "\"yes\""

ValueOf(tok) ==
    IF tok = "T" THEN JTrue
    ELSE IF tok = "F" THEN JFalse
    ELSE IF tok = "S" THEN JYes
    ELSE JNull

RECURSIVE LastRelevant(_)
LastRelevant(t) ==
    IF t = <<>> THEN [has |-> FALSE, value |-> JFalse]
    ELSE IF t[Len(t)] \in {"T", "F", "S", "N"}
         THEN [has |-> TRUE, value |-> ValueOf(t[Len(t)])]
    ELSE LastRelevant(SubSeq(t, 1, Len(t) - 1))

JsonLoads(span) ==
    LET inner == SubSeq(span, 2, Len(span) - 1)
    IN  IF /\ Len(span) >= 2
           /\ span[1] = "{"
           /\ span[Len(span)] = "}"
           /\ Range(inner) \subseteq Members \cup {" "}
        THEN [ok |-> TRUE,
              is_relevant |-> LastRelevant(inner),
              reason |-> IF "R" \in Range(inner)
                         THEN Present(<<"model reason">>) ELSE Absent]
        ELSE Raised("JSONDecodeError")

\* Python truthiness of a JSON value.
Truthy(v) == v \notin {JFalse, JNull}

FailedToParse == <<"Failed to parse response from AI model">>
NoReason == <<"No reason provided">>
ErrorProcessing(e) == <<"Error processing relevance check: ", e>>
ErrorSummary(e) == <<"Error generating summary: ", e>>

\* A plausible slip of line 124: end_idx compared with 0.
HasSpan_EndPositive(start_idx, end_idx) == start_idx >= 0 /\ end_idx > 0

\* check_relevance line 124: if start_idx >= 0 and end_idx > start_idx.
HasSpan(start_idx, end_idx) == start_idx >= 0 /\ end_idx > start_idx

(***************************************************************************)
(* ai_inspector.py, check_relevance, lines 108-134: the pair               *)
(* (is_relevant, reason) for a reply of the endpoint.                      *)
(***************************************************************************)
CheckRelevance(reply) ==
    LET resp == CallLlamaApi(reply)
    IN  IF ~resp.ok THEN <<JFalse, ErrorProcessing(resp.error)>>
        ELSE
        LET rt == ResponseText(resp.json)
        IN  IF ~rt.ok THEN <<JFalse, ErrorProcessing(rt.error)>>
            ELSE
            LET start_idx == Find(rt.text, "{")
                end_idx == RFind(rt.text, "}") + 1
            IN  IF HasSpan(start_idx, end_idx)
                THEN LET result == JsonLoads(Slice(rt.text, start_idx, end_idx))
                     IN  IF ~result.ok
                         THEN <<JFalse, ErrorProcessing(result.error)>>
                         ELSE <<IF result.is_relevant.has
                                THEN result.is_relevant.value ELSE JFalse,
                                IF result.reason.has
                                THEN result.reason.value ELSE NoReason>>
                ELSE <<JFalse, FailedToParse>>

(***************************************************************************)
(* ai_inspector.py, generate_summary, lines 170-184.                       *)
(***************************************************************************)
GenerateSummary(reply) ==
    LET resp == CallLlamaApi(reply)
    IN  IF ~resp.ok THEN ErrorSummary(resp.error)
        ELSE LET rt == ResponseText(resp.json)
             IN  IF ~rt.ok THEN ErrorSummary(rt.error) ELSE rt.text

(***************************************************************************)
(* Inputs.                                                                 *)
(***************************************************************************)
Todays ==
    {<<2024, 1, 5>>, <<2024, 3, 1>>, <<2024, 3, 30>>, <<2023, 3, 3>>,
     <<2024, 12, 31>>, <<2025, 1, 1>>}

DateStrings ==
    {NoStr, EmptyStr, JunkStr, IsoText(2024, 2, 29), IsoText(2023, 2, 29),
     IsoText(2024, 11, 30), IsoText(2024, 13, 1)}

CategoryLists == {NoList, List(<<>>), List(<<"cs.CV", "stat.ML">>)}

Request(tf, s, e, c) ==
    [prompt |-> "interest", timeframe |-> tf, start_date |-> s, end_date |-> e,
     categories |-> c]

Requests ==
    { Request(tf, NoStr, NoStr, c) :
        tf \in {"7d", "30d", "mtd", "ytd", "1y"}, c \in CategoryLists }
    \cup { Request("custom", s, e, c) :
             s \in DateStrings, e \in DateStrings, c \in CategoryLists }

NoRequest == Request("", NoStr, NoStr, NoList)

AppFeeds ==
    { [status |-> "200", entries |-> es] : es \in {<<>>, <<CompleteEntry>>} }
    \cup { [status |-> st, entries |-> <<>>] : st \in {"503", "ConnectionError"} }

\* sample_paper of src/test_ai_inspector.py, lines 24-38.
SamplePaper ==
    [title |-> "Deep Learning-Based Recommendation Systems",
     abstract |-> "abstract",
     authors |-> <<"Jane Smith", "John Doe", "Alice Johnson">>,
     categories |-> <<"cs.IR", "cs.AI", "cs.LG">>,
     arxiv_id |-> <<"2301.12345">>,
     published |-> "2023-01-15T12:00:00Z",
     link |-> "https://arxiv.org/abs/2301.12345"]

NoDate == <<>>
NoPair == <<JNull, <<>>>>
NoText == <<"<unset>">>
NoAnalysis ==
    [state |-> "none", paper_id |-> <<>>, title |-> "", is_relevant |-> JNull,
     relevance_reason |-> <<>>, has_summary |-> FALSE, summary |-> <<>>]
NoReply == Body("none", <<>>)

Idle ==
    /\ start_date = NoDate /\ end_date = NoDate /\ date_query = NoQuery
    /\ categories = <<>>
    /\ exc = None /\ response = Pending
    /\ fn = "idle" /\ args = NoArgs /\ fetchLog = <<>> /\ cursor = 0
    /\ papers = <<>> /\ llmLog = <<>> /\ llmReply = NoReply
    /\ relevance = NoPair /\ summary = NoText /\ analysis = NoAnalysis

Init ==
    /\ Idle
    /\ \/ /\ entry = "app" /\ pc = "h_start"
          /\ request \in Requests /\ today \in Todays /\ feed \in AppFeeds
       \/ /\ entry = "fetch" /\ pc = "f_start"
          /\ request = NoRequest /\ today = NoDate /\ feed \in Feeds
       \/ /\ entry = "test" /\ pc = "t_start"
          /\ request = NoRequest /\ today = NoDate
          /\ feed = [status |-> "200", entries |-> <<>>]

(***************************************************************************)
(* app.py, search_papers.                                                  *)
(***************************************************************************)
\* lines 92-112: the date range and the date query.
Handler_DateRange ==
    /\ entry = "app" /\ pc = "h_start"
    /\ LET r == DateRange(request, today)
       IN  IF r.ok
           THEN /\ start_date' = r.start
                /\ end_date' = r.end
                /\ date_query' = DateQuery(r.start, r.end)
                /\ exc' = exc
                /\ pc' = "h_search"
           ELSE /\ exc' = r.error
                /\ pc' = "h_except"
                /\ UNCHANGED <<start_date, end_date, date_query>>
    /\ UNCHANGED <<entry, request, today, feed, categories, response, fn, args, fetchLog,
                   cursor, papers, llmLog, llmReply, relevance, summary, analysis>>

\* lines 114-120: the categories and the call of arxiv_fetcher.search_papers.
\* The call passes the keyword categories, which search_papers does not take
\* (its parameter is category): the call raises TypeError before the callee's
\* body runs, so the loop of lines 122-154 is never entered and has no action
\* here.
Handler_Search ==
    /\ entry = "app" /\ pc = "h_search"
    /\ categories' = IF ListTruthy(request.categories)
                     THEN request.categories.list ELSE DefaultCategories
    /\ IF Binds(HandlerCallKeywords, SearchPapersParams)
       THEN /\ args' = [search_query |-> <<"submittedDate:[...]">>,
                        category |-> DefaultCategory,
                        max_results |-> 50]
            /\ fn' = "get"
            /\ pc' = "h_fetch"
            /\ exc' = exc
       ELSE /\ exc' = "TypeError: search_papers() got an unexpected keyword argument 'categories'"
            /\ pc' = "h_except"
            /\ UNCHANGED <<fn, args>>
    /\ UNCHANGED <<entry, request, today, feed, start_date, end_date, date_query,
                   response, fetchLog, cursor, papers, llmLog, llmReply,
                   relevance, summary, analysis>>

\* lines 156-157: except Exception -> HTTPException(500).
Handler_Except ==
    /\ entry = "app" /\ pc = "h_except"
    /\ response' = ErrorResponse(exc)
    /\ pc' = "done"
    /\ UNCHANGED <<entry, request, today, feed, start_date, end_date, date_query, categories,
                   exc, fn, args, fetchLog, cursor, papers, llmLog, llmReply,
                   relevance, summary, analysis>>

(***************************************************************************)
(* arxiv_fetcher.py, fetch_papers.                                         *)
(***************************************************************************)
\* lines 79-116: build the query, GET it; a status other than 200 or an
\* exception of the GET returns [] at once.
Fetch_Get ==
    /\ fn = "get"
    /\ fetchLog' = Append(fetchLog, QueryParams(args))
    /\ papers' = <<>>
    /\ IF feed.status = "200"
       THEN fn' = "parse" /\ cursor' = 1
       ELSE fn' = "return" /\ cursor' = cursor
    /\ UNCHANGED <<entry, pc, request, today, feed, start_date, end_date,
                   date_query, categories, exc, response, args, llmLog, llmReply,
                   relevance, summary, analysis>>

\* lines 120-147: one iteration of the loop over feed.entries.
Fetch_ParseEntry ==
    /\ fn = "parse" /\ cursor <= Len(feed.entries)
    /\ LET r == ParseEntry(feed.entries[cursor])
       IN  IF r.ok
           THEN /\ papers' = Append(papers, r.paper)
                /\ cursor' = cursor + 1
                /\ UNCHANGED <<fn, exc>>
           ELSE /\ exc' = r.error
                /\ fn' = "raise"
                /\ UNCHANGED <<papers, cursor>>
    /\ UNCHANGED <<entry, pc, request, today, feed, start_date, end_date,
                   date_query, categories, response, args, fetchLog, llmLog, llmReply,
                   relevance, summary, analysis>>

\* line 149: return papers.
Fetch_Return ==
    /\ fn = "parse" /\ cursor > Len(feed.entries)
    /\ fn' = "return"
    /\ UNCHANGED <<entry, pc, request, today, feed, start_date, end_date,
                   date_query, categories, exc, response, args, fetchLog, cursor, papers,
                   llmLog, llmReply, relevance, summary, analysis>>

(***************************************************************************)
(* fetch_papers.py, main.                                                  *)
(***************************************************************************)
\* lines 20-24: fetcher.fetch_latest_papers(max_results=5), which calls
\* fetch_papers(category=default_category, max_results=5).
Script_FetchLatest ==
    /\ entry = "fetch" /\ pc = "f_start"
    /\ args' = [search_query |-> <<>>, category |-> DefaultCategory, max_results |-> 5]
    /\ fn' = "get"
    /\ pc' = "f_latest"
    /\ UNCHANGED <<entry, request, today, feed, start_date, end_date, date_query, categories,
                   exc, response, fetchLog, cursor, papers, llmLog, llmReply,
                   relevance, summary, analysis>>

\* lines 26-38: print the papers, then fetcher.search_papers(query=...,
\* max_results=3), which calls fetch_papers(search_query=query, category=...).
Script_Search ==
    /\ entry = "fetch" /\ pc = "f_latest" /\ fn = "return"
    /\ Binds({"query", "max_results"}, SearchPapersParams)
    /\ args' = [search_query |-> <<"all:large language models">>,
                category |-> DefaultCategory, max_results |-> 3]
    /\ fn' = "get"
    /\ pc' = "f_search"
    /\ UNCHANGED <<entry, request, today, feed, start_date, end_date, date_query, categories,
                   exc, response, fetchLog, cursor, papers, llmLog, llmReply,
                   relevance, summary, analysis>>

\* lines 40-46: print the search results and end.
Script_Done ==
    /\ entry = "fetch" /\ pc = "f_search" /\ fn = "return"
    /\ fn' = "idle"
    /\ pc' = "done"
    /\ UNCHANGED <<entry, request, today, feed, start_date, end_date, date_query, categories,
                   exc, response, args, fetchLog, cursor, papers, llmLog,
                   llmReply, relevance, summary, analysis>>

\* An exception of fetch_papers is caught nowhere in main: the script dies.
Script_Crash ==
    /\ entry = "fetch" /\ fn = "raise"
    /\ fn' = "idle"
    /\ pc' = "crashed"
    /\ UNCHANGED <<entry, request, today, feed, start_date, end_date, date_query, categories,
                   exc, response, args, fetchLog, cursor, papers, llmLog,
                   llmReply, relevance, summary, analysis>>

(***************************************************************************)
(* src/test_ai_inspector.py, main, and ai_inspector.py, analyze_paper.     *)
(***************************************************************************)
LlmCall(kind, paper, caller) == [kind |-> kind, paper |-> paper.arxiv_id, caller |-> caller]

\* test lines 65-70: inspector.check_relevance(sample_paper, user_prompt).
Test_CheckRelevance ==
    /\ entry = "test" /\ pc = "t_start"
    /\ \E reply \in Replies :
         /\ llmLog' = Append(llmLog, LlmCall("relevance", SamplePaper, "main"))
         /\ llmReply' = reply
         /\ relevance' = CheckRelevance(reply)
    /\ pc' = "t_checked"
    /\ UNCHANGED <<entry, request, today, feed, start_date, end_date, date_query, categories,
                   exc, response, fn, args, fetchLog, cursor, papers, summary,
                   analysis>>

\* test lines 72-77: if is_relevant: inspector.generate_summary(...).
Test_Summary ==
    /\ entry = "test" /\ pc = "t_checked"
    /\ Truthy(relevance[1])
    /\ \E reply \in SummaryReplies :
         /\ llmLog' = Append(llmLog, LlmCall("summary", SamplePaper, "main"))
         /\ summary' = GenerateSummary(reply)
    /\ llmReply' = NoReply
    /\ pc' = "t_analyze"
    /\ UNCHANGED <<entry, request, today, feed, start_date, end_date, date_query, categories,
                   exc, response, fn, args, fetchLog, cursor, papers,
                   relevance, analysis>>

\* test lines 78-80: else: no summary.
Test_NoSummary ==
    /\ entry = "test" /\ pc = "t_checked"
    /\ ~Truthy(relevance[1])
    /\ llmReply' = NoReply
    /\ pc' = "t_analyze"
    /\ UNCHANGED <<entry, request, today, feed, start_date, end_date, date_query, categories,
                   exc, response, fn, args, fetchLog, cursor, papers, llmLog,
                   relevance, summary, analysis>>

\* A plausible change of lines 197-205: a failed relevance call sent once more.
Analyze_Check_RetryOnFailure ==
    /\ entry = "test" /\ pc = "t_analyze"
    /\ \E reply \in Replies :
         LET rel == CheckRelevance(reply)
             call == LlmCall("relevance", SamplePaper, "analyze_paper")
         IN  /\ llmLog' = IF reply.kind = "RequestException"
                           THEN llmLog \o <<call, call>> ELSE Append(llmLog, call)
             /\ llmReply' = reply
             /\ relevance' = rel
             /\ analysis' = [state |-> "building",
                             paper_id |-> SamplePaper.arxiv_id,
                             title |-> SamplePaper.title,
                             is_relevant |-> rel[1],
                             relevance_reason |-> rel[2],
                             has_summary |-> FALSE,
                             summary |-> <<>>]
    /\ summary' = NoText
    /\ pc' = "a_checked"
    /\ UNCHANGED <<entry, request, today, feed, start_date, end_date, date_query, categories,
                   exc, response, fn, args, fetchLog, cursor, papers>>

\* analyze_paper lines 197-205 (called at test line 84): check_relevance and
\* the result dict without a summary.
Analyze_Check ==
    /\ entry = "test" /\ pc = "t_analyze"
    /\ \E reply \in Replies :
         LET rel == CheckRelevance(reply)
         IN  /\ llmLog' = Append(llmLog, LlmCall("relevance", SamplePaper, "analyze_paper"))
             /\ llmReply' = reply
             /\ relevance' = rel
             /\ analysis' = [state |-> "building",
                             paper_id |-> SamplePaper.arxiv_id,
                             title |-> SamplePaper.title,
                             is_relevant |-> rel[1],
                             relevance_reason |-> rel[2],
                             has_summary |-> FALSE,
                             summary |-> <<>>]
    /\ summary' = NoText
    /\ pc' = "a_checked"
    /\ UNCHANGED <<entry, request, today, feed, start_date, end_date, date_query, categories,
                   exc, response, fn, args, fetchLog, cursor, papers>>

\* analyze_paper lines 207-210: if is_relevant: result["summary"] = summary.
Analyze_Summary ==
    /\ entry = "test" /\ pc = "a_checked"
    /\ Truthy(relevance[1])
    /\ \E reply \in SummaryReplies :
         LET text == GenerateSummary(reply)
         IN  /\ llmLog' = Append(llmLog, LlmCall("summary", SamplePaper, "analyze_paper"))
             /\ summary' = text
             /\ analysis' = [analysis EXCEPT !.has_summary = TRUE, !.summary = text]
    /\ pc' = "a_return"
    /\ UNCHANGED <<entry, request, today, feed, start_date, end_date, date_query, categories,
                   exc, response, fn, args, fetchLog, cursor, papers, llmReply,
                   relevance>>

\* A plausible slip of lines 207-212: returning before the summary is made.
Analyze_Return_BeforeSummary ==
    /\ entry = "test"
    /\ pc \in {"a_return", "a_checked"}
    /\ analysis' = [analysis EXCEPT !.state = "returned"]
    /\ pc' = "done"
    /\ UNCHANGED <<entry, request, today, feed, start_date, end_date, date_query, categories,
                   exc, response, fn, args, fetchLog, cursor, papers, llmLog,
                   llmReply, relevance, summary>>

\* analyze_paper line 212: return result; test lines 85-93 print it.
Analyze_Return ==
    /\ entry = "test"
    /\ \/ pc = "a_return"
       \/ pc = "a_checked" /\ ~Truthy(relevance[1])
    /\ analysis' = [analysis EXCEPT !.state = "returned"]
    /\ pc' = "done"
    /\ UNCHANGED <<entry, request, today, feed, start_date, end_date, date_query, categories,
                   exc, response, fn, args, fetchLog, cursor, papers, llmLog,
                   llmReply, relevance, summary>>

Next ==
    \/ Handler_DateRange
    \/ Handler_Search
    \/ Handler_Except
    \/ Fetch_Get
    \/ Fetch_ParseEntry
    \/ Fetch_Return
    \/ Script_FetchLatest
    \/ Script_Search
    \/ Script_Done
    \/ Script_Crash
    \/ Test_CheckRelevance
    \/ Test_Summary
    \/ Test_NoSummary
    \/ Analyze_Check
    \/ Analyze_Summary
    \/ Analyze_Return

Spec == Init /\ [][Next]_vars

(***************************************************************************)
(* Properties.                                                             *)
(***************************************************************************)
InApp == entry = "app"
HandlerEnded == InApp /\ pc = "done"

\* The value of a digit string.
RECURSIVE DigitsValue(_)
DigitsValue(ds) ==
    IF ds = <<>> THEN 0 ELSE DigitsValue(SubSeq(ds, 1, Len(ds) - 1)) * 10 + ds[Len(ds)]

\* The day a 14-digit bound of the submittedDate range names, and its time.
BoundDay(b) ==
    <<DigitsValue(SubSeq(b, 1, 4)), DigitsValue(SubSeq(b, 5, 6)),
      DigitsValue(SubSeq(b, 7, 8))>>
BoundTime(b) == SubSeq(b, 9, 14)

\* The request names a timeframe whose dates the handler can compute.
PlainTimeframe == request.timeframe \in {"7d", "30d", "mtd", "ytd"}
CustomWithDates ==
    /\ request.timeframe = "custom"
    /\ request.start_date.kind = "iso" /\ request.end_date.kind = "iso"
    /\ request.start_date.m \in 1..12 /\ request.end_date.m \in 1..12
    /\ request.start_date.d \in 1..DaysInMonth(request.start_date.y, request.start_date.m)
    /\ request.end_date.d \in 1..DaysInMonth(request.end_date.y, request.end_date.m)

\* C1: a search request with a prompt, a timeframe code (7d, 30d, mtd, ytd, or
\* custom with start and end dates) and an optional category list, served while
\* the feed answers normally, ends in a successful response carrying the array
\* of paper records, not in the error response.
C1_SearchCompletes ==
    (HandlerEnded /\ (PlainTimeframe \/ CustomWithDates) /\ feed.status = "200")
        => response.status = 200

\* C2: the handler maps each timeframe code to its date window: 7d to
\* [today - 7 days, today], 30d to [today - 30 days, today], mtd to [first day
\* of the current month, today], ytd to [1 January of the current year, today],
\* custom with both dates to [start_date, end_date] as requested; the
\* submittedDate range of the query runs from the start day at 000000 to the
\* end day at 235959.
C2_TimeframeWindows ==
    (InApp /\ pc # "h_start" /\ (PlainTimeframe \/ CustomWithDates)) =>
        /\ date_query.field = "submittedDate"
        /\ Len(date_query.lo) = 14 /\ Len(date_query.hi) = 14
        /\ BoundTime(date_query.lo) = <<0, 0, 0, 0, 0, 0>>
        /\ BoundTime(date_query.hi) = <<2, 3, 5, 9, 5, 9>>
        /\ BoundDay(date_query.lo) = start_date
        /\ BoundDay(date_query.hi) = end_date
        /\ request.timeframe = "7d" =>
              ToOrdinal(start_date) = ToOrdinal(today) - 7 /\ end_date = today
        /\ request.timeframe = "30d" =>
              ToOrdinal(start_date) = ToOrdinal(today) - 30 /\ end_date = today
        /\ request.timeframe = "mtd" =>
              start_date = <<today[1], today[2], 1>> /\ end_date = today
        /\ request.timeframe = "ytd" =>
              start_date = <<today[1], 1, 1>> /\ end_date = today
        /\ request.timeframe = "custom" =>
              /\ start_date = <<request.start_date.y, request.start_date.m,
                                request.start_date.d>>
              /\ end_date = <<request.end_date.y, request.end_date.m,
                              request.end_date.d>>
        \* worked cases across a leap February and a year's end
        /\ (request.timeframe = "7d" /\ today = <<2024, 3, 1>>) =>
              date_query.lo = <<2, 0, 2, 4, 0, 2, 2, 3, 0, 0, 0, 0, 0, 0>>
        /\ (request.timeframe = "30d" /\ today = <<2024, 3, 1>>) =>
              date_query.lo = <<2, 0, 2, 4, 0, 1, 3, 1, 0, 0, 0, 0, 0, 0>>
        /\ (request.timeframe = "30d" /\ today = <<2025, 1, 1>>) =>
              date_query.lo = <<2, 0, 2, 4, 1, 2, 0, 2, 0, 0, 0, 0, 0, 0>>
        /\ (request.timeframe = "ytd" /\ today = <<2024, 12, 31>>) =>
              /\ date_query.lo = <<2, 0, 2, 4, 0, 1, 0, 1, 0, 0, 0, 0, 0, 0>>
              /\ date_query.hi = <<2, 0, 2, 4, 1, 2, 3, 1, 2, 3, 5, 9, 5, 9>>

\* A ytd request on the last day of 2024 whose window was built.
C2_Witness ==
    /\ InApp /\ pc = "h_search"
    /\ request.timeframe = "ytd" /\ today = <<2024, 12, 31>>
    /\ date_query.lo = <<2, 0, 2, 4, 0, 1, 0, 1, 0, 0, 0, 0, 0, 0>>

\* The categories a request asks the feed search to be restricted to.
WantedCategories ==
    IF request.categories.given /\ request.categories.list # <<>>
    THEN request.categories.list ELSE <<"cs.AI", "cs.LG">>

\* C3: a request without a category list (absent or empty) has its feed search
\* restricted to cs.AI and cs.LG, a request with a non-empty list to exactly
\* the categories supplied.
C3_CategoriesRestrictSearch ==
    (HandlerEnded /\ (PlainTimeframe \/ CustomWithDates)) =>
        \E i \in 1..Len(fetchLog) :
            \A k \in 1..Len(WantedCategories) :
                WantedCategories[k] \in Range(fetchLog[i].search_query)

(***************************************************************************)
(* The reply text check_relevance reads, described without the code's      *)
(* index arithmetic.                                                       *)
(***************************************************************************)
\* The running relevance call got a JSON body that carries a text (the empty
\* text when the body lacks the keys).
ReplyHasText ==
    llmReply.kind = "json" /\ llmReply.shape \in {"ok", "no_completion_message"}

\* The text holds a {...} span: some "{" stands before some "}".
SpanIn(t) == \E i, j \in 1..Len(t) : i < j /\ t[i] = "{" /\ t[j] = "}"

\* What stands strictly between the first "{" and the last "}".
Between(t) ==
    { t[k] : k \in { n \in 1..Len(t) :
                       /\ \E i \in 1..(n - 1) : t[i] = "{"
                       /\ \E j \in (n + 1)..Len(t) : t[j] = "}" } }

WellFormed(t) == SpanIn(t) /\ Between(t) \subseteq {"T", "F", "S", "N", "R", " "}

CallsOf(kind, caller) ==
    { i \in 1..Len(llmLog) : llmLog[i].kind = kind /\ llmLog[i].caller = caller }

InAnalyze == entry = "test" /\ pc \in {"a_checked", "a_return", "done"}
Returned == analysis.state = "returned"

\* C4: for every LLM reply text without a {...} span (no "{", no "}", or the
\* last "}" before the first "{"), check_relevance returns not relevant with
\* the reason 'Failed to parse response from AI model', and analyze_paper then
\* makes no summary call and returns a result without a summary.
C4_NoSpanNotRelevant ==
    (ReplyHasText /\ ~SpanIn(llmReply.text)) =>
        /\ relevance = <<JFalse, <<"Failed to parse response from AI model">>>>
        /\ InAnalyze =>
              /\ pc # "a_return"
              /\ CallsOf("summary", "analyze_paper") = {}
              /\ ~analysis.has_summary
              /\ analysis.is_relevant = JFalse

\* analyze_paper has returned for a reply whose last "}" precedes its first "{".
C4_Witness ==
    /\ entry = "test" /\ pc = "done" /\ Returned
    /\ llmReply = Body("ok", <<"}", "x", "{">>)
    /\ ~analysis.has_summary

\* C5: in analyze_paper a relevant classification triggers exactly one summary
\* call and a not-relevant one none; the result has a 'summary' entry exactly
\* when is_relevant holds; the summary call comes after the relevance call for
\* the same paper.
C5_OneSummaryIffRelevant ==
    /\ \A i \in 1..Len(llmLog) :
          llmLog[i].kind = "summary" =>
              /\ i > 1
              /\ llmLog[i - 1].kind = "relevance"
              /\ llmLog[i - 1].caller = llmLog[i].caller
              /\ llmLog[i - 1].paper = llmLog[i].paper
    /\ (entry = "test" /\ Returned) =>
          /\ Cardinality(CallsOf("relevance", "analyze_paper")) = 1
          /\ analysis.is_relevant \in {JTrue, JYes} =>
                /\ Cardinality(CallsOf("summary", "analyze_paper")) = 1
                /\ analysis.has_summary
                /\ analysis.summary = summary
          /\ analysis.is_relevant \in {JFalse, JNull} =>
                /\ CallsOf("summary", "analyze_paper") = {}
                /\ ~analysis.has_summary

\* analyze_paper has returned a relevant result with its summary, made by the
\* call that followed the relevance call.
C5_Witness ==
    /\ entry = "test" /\ Returned
    /\ analysis.is_relevant = JTrue /\ analysis.has_summary
    /\ analysis.summary = <<"x">>
    /\ llmLog[Len(llmLog)].kind = "summary"

\* C6: every failure inside the search request handler is caught and surfaced
\* as an HTTP 500 error whose detail is 'Error searching papers: ' followed by
\* the exception text; no failure escapes the handler as anything else or is
\* reported as a successful response.
C6_FailuresBecome500 ==
    InApp =>
        /\ pc \in {"h_start", "h_search", "h_except", "done"}
        /\ exc # None => pc \in {"h_except", "done"}
        /\ (exc # None /\ pc = "done") =>
              /\ response.status = 500
              /\ response.detail = <<"Error searching papers: ", exc>>
        /\ (pc = "done" /\ response.status # 500) => exc = None
        /\ pc # "done" => response = Pending

\* A custom request whose start date names no day of the calendar has ended in
\* the 500 response that carries the ValueError text.
C6_Witness ==
    /\ HandlerEnded
    /\ request.timeframe = "custom" /\ request.start_date = IsoText(2023, 2, 29)
    /\ response.status = 500
    /\ response.detail[2] = "ValueError: Invalid isoformat string"

\* C7: a failure reaching the feed source (a status other than 200, or an
\* exception of the request or the parse) makes fetch_papers return an empty
\* list, so the request proceeds with zero candidate papers and makes no LLM
\* call: it ends in a successful, empty response.
C7_FeedFailureIsZeroResults ==
    (HandlerEnded /\ (PlainTimeframe \/ CustomWithDates) /\ feed.status # "200") =>
        /\ Len(fetchLog) = 1
        /\ llmLog = <<>>
        /\ response.status = 200 /\ response.body = <<>>

\* A relevance call has been answered and its result is at hand.
Answered == entry = "test" /\ llmReply # NoReply

IsErrorProcessing(reason) ==
    Len(reason) = 2 /\ reason[1] = "Error processing relevance check: "

NoPdfAlternate(e) ==
    \A k \in 1..Len(e.links) :
        ~(e.links[k].rel = "alternate" /\ e.links[k].type = "application/pdf")

\* C9: a feed entry lacking optional fields does not crash fetch_papers: no
\* update timestamp gives updated = None, no tags give categories = [], no PDF
\* alternate link gives pdf_link = None, and the record is still appended.
C9_OptionalFieldsDefault ==
    (entry = "fetch" /\ fn \in {"parse", "raise", "return"} /\ feed.status = "200") =>
        /\ Len(papers) <= Len(feed.entries)
        /\ \A i \in 1..Len(papers) :
              LET e == feed.entries[i]
              IN  /\ ~e.updated.has => papers[i].updated = None
                  /\ e.updated.has => papers[i].updated = e.updated.value
                  /\ ~e.tags.has => papers[i].categories = <<>>
                  /\ NoPdfAlternate(e) => papers[i].pdf_link = None
                  /\ papers[i].arxiv_id = <<"2301.12345v1">>
        /\ fn = "parse" => Len(papers) = cursor - 1
        /\ fn = "return" => Len(papers) = Len(feed.entries)
        /\ fn = "raise" => ~feed.entries[Len(papers) + 1].authors.has

\* fetch_papers has returned two records, the first parsed from an entry with
\* no update timestamp, no tags and no PDF alternate link.
C9_Witness ==
    /\ entry = "fetch" /\ fn = "return" /\ Len(papers) = 2
    /\ ~feed.entries[1].updated.has /\ ~feed.entries[1].tags.has
    /\ NoPdfAlternate(feed.entries[1])
    /\ papers[1].updated = None /\ papers[1].categories = <<>>
    /\ papers[1].pdf_link = None

\* C10: each search request performs exactly one feed fetch, which completes
\* before any LLM call, and then processes the candidate papers one after the
\* other in feed order, with no two outbound calls in flight at once.
C10_OneFetchThenSequentialCalls ==
    (HandlerEnded /\ (PlainTimeframe \/ CustomWithDates)) =>
        /\ Len(fetchLog) = 1
        /\ \A i \in 1..Len(llmLog) : llmLog[i].caller = "analyze_paper"

\* The request is one the handler can compute the dates of.
WellFormed_Request == PlainTimeframe \/ CustomWithDates

\* C11: a successful search response is exactly the relevant subset of the
\* fetched papers: one record for each fetched paper whose analysis is
\* relevant and none for another, in feed order, each with status 'new',
\* collected false, notes null and the summary made for that paper; the
\* search returns that subset.
C11_ResponseIsRelevantSubset ==
    (HandlerEnded /\ WellFormed_Request /\ feed.status = "200") =>
        /\ response.status = 200
        /\ Len(fetchLog) = 1
        /\ Len(papers) = Len(feed.entries)
        /\ Len(response.body) = Cardinality(CallsOf("summary", "analyze_paper"))
        /\ \A i \in 1..Len(response.body) :
              /\ response.body[i].status = "new"
              /\ response.body[i].collected = FALSE
              /\ response.body[i].notes = None

\* The calls analyze_paper has sent so far.
AnalyzeCalls == { i \in 1..Len(llmLog) : llmLog[i].caller = "analyze_paper" }

SummaryFailed == Len(summary) = 2 /\ summary[1] = "Error generating summary: "

\* C12: there are no retries: a paper gets exactly one relevance call and at
\* most one summary call whatever their outcome, a failed call is never sent
\* again, and the LLM calls of a request number the fetched papers plus those
\* judged relevant (at most 2 x 50).
C12_NoRetries ==
    /\ (entry = "test" /\ pc \in {"a_checked", "a_return", "done"}) =>
          /\ Cardinality(CallsOf("relevance", "analyze_paper")) = 1
          /\ Cardinality(CallsOf("summary", "analyze_paper")) <= 1
          /\ llmReply.kind = "RequestException" =>
                Cardinality(AnalyzeCalls) = 1
          /\ (~Truthy(relevance[1]) /\ pc = "done") =>
                Cardinality(AnalyzeCalls) = 1
          /\ SummaryFailed =>
                /\ Cardinality(CallsOf("summary", "analyze_paper")) = 1
                /\ Cardinality(AnalyzeCalls) = 2
          /\ Returned =>
                Cardinality(AnalyzeCalls) = 1 + (IF analysis.has_summary THEN 1 ELSE 0)
    /\ entry = "test" =>
          /\ Cardinality(CallsOf("relevance", "main")) <= 1
          /\ Cardinality(CallsOf("summary", "main")) <= 1
    /\ InApp =>
          /\ Len(llmLog) = Len(papers) + Len(response.body)
          /\ Len(llmLog) <= 2 * 50

\* analyze_paper has returned after its relevance call failed, having sent
\* that one call only.
C12_Witness ==
    /\ entry = "test" /\ Returned
    /\ llmReply.kind = "RequestException"
    /\ Cardinality(AnalyzeCalls) = 1
    /\ llmLog[Len(llmLog)].kind = "relevance"

\* The request's timeframe is no known code, or is custom with a date missing
\* or empty.
FallsBack ==
    \/ request.timeframe \notin {"7d", "30d", "mtd", "ytd", "custom"}
    \/ /\ request.timeframe = "custom"
       /\ \/ request.start_date.kind \in {"none", "empty"}
          \/ request.end_date.kind \in {"none", "empty"}

\* C13: a request whose timeframe is no known code, or is custom with
\* start_date or end_date missing or empty, is not rejected by the date
\* computation: the handler falls back to [today - 30 days, today], the
\* window of 30d.
C13_FallbackThirtyDays ==
    (InApp /\ pc # "h_start" /\ FallsBack) =>
        /\ exc # "ValueError: Invalid isoformat string"
        /\ end_date = today
        /\ ToOrdinal(start_date) = ToOrdinal(today) - 30
        /\ date_query = DateQuery(MinusDays(today, 30), today)
        /\ date_query.hi = StrfYmd(today) \o <<2, 3, 5, 9, 5, 9>>
        /\ today = <<2024, 3, 1>> =>
              date_query.lo = <<2, 0, 2, 4, 0, 1, 3, 1, 0, 0, 0, 0, 0, 0>>
        /\ today = <<2025, 1, 1>> =>
              date_query.lo = <<2, 0, 2, 4, 1, 2, 0, 2, 0, 0, 0, 0, 0, 0>>

\* A custom request with a start date and an empty end date got the 30-day
\* window.
C13_Witness ==
    /\ InApp /\ pc = "h_search"
    /\ request.timeframe = "custom"
    /\ request.start_date = IsoText(2024, 2, 29) /\ request.end_date = EmptyStr
    /\ today = <<2024, 3, 1>>
    /\ date_query.lo = <<2, 0, 2, 4, 0, 1, 3, 1, 0, 0, 0, 0, 0, 0>>

\* The value the model's JSON gives is_relevant: that of its last is_relevant
\* member, when the reply text holds a well-formed object.
CarriesTrue ==
    /\ llmReply.kind = "json" /\ llmReply.shape = "ok"
    /\ WellFormed(llmReply.text)
    /\ \E k \in 1..Len(llmReply.text) :
          /\ llmReply.text[k] = "T"
          /\ \A n \in (k + 1)..Len(llmReply.text) :
                llmReply.text[n] \notin {"F", "S", "N"}

\* C14: check_relevance returns a boolean first and a string second for every
\* LLM reply: the relevance decision that gates the summary call and the
\* inclusion of a paper is true only when the model's JSON carries the boolean
\* true for is_relevant.
C14_RelevanceIsBoolean ==
    Answered =>
        /\ relevance[1] \in {JTrue, JFalse}
        /\ Truthy(relevance[1]) => CarriesTrue
        /\ (pc \in {"a_return", "done"} /\ analysis.has_summary) => CarriesTrue

\* C15: a failure of the summary call for a paper judged relevant neither
\* fails the request nor drops the paper: generate_summary returns 'Error
\* generating summary: ...' instead of raising, the paper is still returned
\* with that text as its summary, and processing goes on with the next paper.
C15_SummaryFailureKeepsPaper ==
    /\ (entry = "test" /\ pc \in {"a_return", "done"} /\ SummaryFailed) =>
          /\ exc = None
          /\ analysis.has_summary /\ analysis.summary = summary
    /\ (HandlerEnded /\ WellFormed_Request /\ feed.status = "200") =>
          /\ response.status = 200
          /\ Len(llmLog) >= Len(feed.entries)
          /\ \A i \in 1..Len(llmLog) :
                (llmLog[i].kind = "summary") =>
                    \E j \in 1..Len(response.body) :
                        response.body[j].id = llmLog[i].paper

====
